---------------------------- MODULE Spec2Model ----------------------------
(***************************************************************************)
(* A model of the tova runtime: the channel registry (channels.rs) driven  *)
(* by concurrent caller threads, and the concurrency policies of lib.rs    *)
(* (ALL, CHUNKED_SHARED, FIRST, TIMEOUT, CANCEL_ON_ERROR) over blocking    *)
(* tasks that run executor::exec_wasm_sync.                                *)
(***************************************************************************)
EXTENDS Integers, Sequences, FiniteSets, TLC

(***************************************************************************)
(* Bounds of the model.                                                    *)
(***************************************************************************)
\* calls the concurrent callers make in total
MaxOps == 5
\* channels ever created (values of NEXT_ID that create may hand out)
MaxChans == 2
\* largest capacity passed to create (0 is a rendezvous channel)
MaxCap == 2
\* the number of different values sent: i64::MIN and 1..(MaxVal - 1)
MaxVal == 2
\* calls the single sequential caller of SeqSpec makes
MaxSeqOps == 7
\* calls the concurrent callers of NoDestroySpec make in total
MaxKeepOps == 6
\* tasks in the chunk exec_many_shared_reuse is given
MaxChunk == 2
\* tasks in the list a policy call is given
MaxTasks == 3
\* concurrent_wasm_shared is also given lists of ChunkCount + 1 up to
\* ChunkCount + MaxOver tasks, whose chunks hold more than one task
MaxOver == 1
\* exec_wasm_sync calls the two workers of ExecSpec make in all
MaxExecCalls == 3
\* exec_wasm_sync calls the single worker of SeqExecSpec makes
MaxSeqExecCalls == 2

\* the bits of an i32 (32 in the code; an i64 has twice as many)
I32Bits == 4
\* the fuel a store is given (1,000,000,000 in the code)
FuelBudget == 4
\* the number of keys hash_wasm_bytes can return (2^64 in the code)
HashSpace == 3

\* lib.rs, concurrent_wasm_shared: the number of chunks aimed at
ChunkCount == 8

VARIABLES
    \* ---- channels.rs
    registry,    \* CHANNELS: id -> "absent" | "open" | "closed" (entry.closed)
    buf,         \* the messages queued in the crossbeam channel created for id
    cap,         \* the capacity that channel was created with
    nextId,      \* NEXT_ID
    lockHolder,  \* the thread holding the CHANNELS mutex between steps, 0 if none
    th,          \* per caller thread: the call in progress and its locals
    callsLeft,   \* calls the callers may still start
    \* ---- history of the calls (not program state)
    issued,      \* the ids create has taken from NEXT_ID, in allocation order
    closedRet,   \* ids for which a close that found the entry has returned
    scen,        \* per id: the sends/close/receive_blocking scenario so far
    owed,        \* per id: values queued when close found the open entry and not
                 \*         received since (0 again once the entry is destroyed)
    \* ---- lib.rs: one call of a concurrent_wasm_* function
    policy,      \* which function: "all", "shared", "first", "timeout", "cancel"
    tasks,       \* the task list of the call
    slow,        \* timeout: the tasks whose runtime exceeds timeout_ms
    st,          \* per blocking job: "none", "queued", "running", "done", "cancelled"
    outer,       \* first: per async wrapper task: "spawned", "awaiting", "finished",
                 \*        "aborted"
    txSlot,      \* first: the Option<Sender> behind the mutex: "some" or "taken"
    rxMsg,       \* first: the messages sent on the oneshot channel
    deadline,    \* timeout: the deadline has elapsed
    mainPc,      \* the caller: "start", "await", "returned"
    k,           \* the handle the caller awaits next (all, shared, timeout)
    results,     \* the results the caller has collected so far
    ret,         \* what the call returned
    \* ---- executor.rs
    cache,       \* MODULE_CACHE: key -> the bytes the cached module was compiled from
    ex,          \* per worker thread: the exec_wasm_sync call in progress, its locals
    execLeft,    \* exec_wasm_sync calls the workers may still start
    \* ---- history of the calls (not program state)
    doneOk,      \* bytes for which a get_or_compile_module call has returned Ok
    doneErr,     \* bytes for which a get_or_compile_module call has returned Err
    \* ---- executor.rs: exec_many_shared_reuse
    ru           \* the call: its chunk, the shared store's fuel, the results so far

chanVars ==
    <<registry, buf, cap, nextId, lockHolder, th, callsLeft, issued, closedRet, scen,
      owed>>

polVars ==
    <<policy, tasks, slow, st, outer, txSlot, rxMsg, deadline, mainPc, k, results, ret>>

execVars == <<cache, ex, execLeft, doneOk, doneErr>>

vars == <<chanVars, polVars, execVars, ru>>

\* the integer widths are scaled: an i32 has I32Bits bits, an i64 twice that
RECURSIVE Pow2(_)
Pow2(n) == IF n = 0 THEN 1 ELSE 2 * Pow2(n - 1)

I64Bits == 2 * I32Bits

I64Min == 0 - Pow2(I64Bits - 1)

I64Max == Pow2(I64Bits - 1) - 1

\* the caller threads of the channel registry
Threads == {1, 2}
Ids == 0..(MaxChans - 1)
Vals == {I64Min} \cup 1..(MaxVal - 1)
Caps == 0..MaxCap

\* Option<i64> / bool / u64 results of the registry calls, as one record shape
Some(v) == [ok |-> TRUE, val |-> v]
None == [ok |-> FALSE, val |-> 0]
RetTrue == [ok |-> TRUE, val |-> 0]
RetFalse == [ok |-> FALSE, val |-> 0]

\* a caller thread: the call in progress, its arguments and locals (closed is
\* the `closed` local of receive / receive_blocking) and the result of its
\* last call
Idle == [pc |-> "idle", op |-> "none", id |-> 0, val |-> 0, closed |-> FALSE,
         res |-> None]

(***************************************************************************)
(* Endpoint counts of the crossbeam channel created for id.  The registry  *)
(* entry of an open channel holds the original Sender; close drops it and  *)
(* stores a dead sender of another channel.  Every entry holds a Receiver. *)
(* A send in flight holds a Sender clone, a receive in flight holds a      *)
(* Receiver clone until the call returns.                                  *)
(***************************************************************************)
SenderClones(id) == {t \in Threads : th[t].pc = "send_ep" /\ th[t].id = id}

ReceiverClones(id) ==
    {t \in Threads : th[t].pc \in {"try_recv", "recv", "cleanup"} /\ th[t].id = id}

\* the senders, had close stored the original sender in the closed entry
SendersKeptByClose(id) ==
    (IF registry[id] # "absent" THEN 1 ELSE 0) + Cardinality(SenderClones(id))

Senders(id) ==
    (IF registry[id] = "open" THEN 1 ELSE 0) + Cardinality(SenderClones(id))

Receivers(id) ==
    (IF registry[id] # "absent" THEN 1 ELSE 0) + Cardinality(ReceiverClones(id))

(***************************************************************************)
(* The scenario of claim C1, per channel: since the channel was created,   *)
(* only sends that returned true, then a close, then receive_blocking      *)
(* calls, none of these calls overlapping another call on the channel.     *)
(* sent is v1..vk, got the results of the receive_blocking calls.          *)
(***************************************************************************)
NoScen == [phase |-> "void", sent |-> <<>>, got |-> <<>>]

NewScen == [phase |-> "sending", sent |-> <<>>, got |-> <<>>]

ScenAfter(s, op, v, r) ==
    CASE op = "send" /\ ~r.ok -> s
      [] op = "send" /\ r.ok /\ s.phase = "sending" ->
            [s EXCEPT !.sent = Append(s.sent, v)]
      [] op = "close" /\ s.phase = "sending" -> [s EXCEPT !.phase = "closed"]
      [] op = "receive_blocking" /\ s.phase = "closed"
            /\ Len(s.got) <= Len(s.sent) ->
            [s EXCEPT !.got = Append(s.got, r)]
      [] OTHER -> NoScen

\* another thread is inside a call on id
Overlaps(t, id) == \E u \in Threads \ {t} : th[u].pc # "idle" /\ th[u].id = id

\* the history when thread t enters a call on id
ScenEnter(t, id) ==
    IF Overlaps(t, id) THEN [scen EXCEPT ![id] = NoScen] ELSE scen

\* the history h after the call op(id, v) returned r
ScenReturn(h, id, op, v, r) == [h EXCEPT ![id] = ScenAfter(h[id], op, v, r)]

(***************************************************************************)
(* Steps of a call.                                                        *)
(***************************************************************************)
CanCall(t) == th[t].pc = "idle" /\ callsLeft > 0 /\ lockHolder = 0

\* thread t enters the call op(id, v) and is at pc when the step ends
Enter(t, op, id, v, pc, closed) ==
    [th EXCEPT ![t] = [pc |-> pc, op |-> op, id |-> id, val |-> v,
                       closed |-> closed, res |-> None]]

\* thread t enters the call op(id, v), which returns r in the same step; the
\* arguments and locals of a call are gone when it has returned
EnterReturn(t, op, id, v, r) ==
    [th EXCEPT ![t] = [pc |-> "idle", op |-> op, id |-> 0, val |-> 0,
                       closed |-> FALSE, res |-> r]]

\* the call of thread t returns r
Return(t, r) ==
    [th EXCEPT ![t].pc = "idle", ![t].res = r, ![t].id = 0, ![t].val = 0,
               ![t].closed = FALSE]

\* the CHANNELS guard after drop(channels), before the endpoint operation
GuardAfterDropHeld(t) == t

GuardAfterDrop(t) == 0

\* the id create takes from NEXT_ID, and NEXT_ID afterwards
TakeIdReuse == Cardinality({i \in Ids : registry[i] # "absent"})

TakeId == nextId

\* create, lines 18-23: bounded(cap); lock NEXT_ID; id = *id_lock; *id_lock += 1
CreateAlloc(t, c) ==
    /\ CanCall(t)
    /\ callsLeft' = callsLeft - 1
    /\ TakeId \in Ids
    /\ nextId < MaxChans
    /\ th' = Enter(t, "create", TakeId, c, "create_insert", FALSE)
    /\ nextId' = nextId + 1
    /\ cap' = [cap EXCEPT ![TakeId] = c]
    /\ buf' = [buf EXCEPT ![TakeId] = <<>>]
    /\ issued' = Append(issued, TakeId)
    /\ UNCHANGED <<registry, lockHolder, closedRet, scen>>
    /\ UNCHANGED owed
    /\ UNCHANGED <<polVars, execVars, ru>>

\* create, lines 24-26: lock CHANNELS; insert the open entry; return id
CreateInsert(t) ==
    /\ th[t].pc = "create_insert"
    /\ lockHolder = 0
    /\ registry' = [registry EXCEPT ![th[t].id] = "open"]
    /\ th' = Return(t, Some(th[t].id))
    /\ scen' = [scen EXCEPT ![th[t].id] = NewScen]
    /\ UNCHANGED <<callsLeft, buf, cap, nextId, lockHolder, issued, closedRet>>
    /\ UNCHANGED owed
    /\ UNCHANGED <<polVars, execVars, ru>>

\* send, lines 30-34 and 36-38: lock; absent or closed => false; otherwise
\* clone the sender and drop the guard
SendLookup(t, id, v) ==
    /\ CanCall(t)
    /\ callsLeft' = callsLeft - 1
    /\ IF registry[id] = "open"
       THEN /\ th' = Enter(t, "send", id, v, "send_ep", FALSE)
            /\ lockHolder' = GuardAfterDrop(t)
            /\ scen' = ScenEnter(t, id)
       ELSE /\ th' = EnterReturn(t, "send", id, v, RetFalse)
            /\ lockHolder' = 0
            /\ scen' = ScenReturn(ScenEnter(t, id), id, "send", v, RetFalse)
    /\ UNCHANGED <<registry, buf, cap, nextId, issued, closedRet>>
    /\ UNCHANGED owed
    /\ UNCHANGED <<polVars, execVars, ru>>

\* send, line 35: sender.send(value).is_ok() on a buffered channel: Err when
\* every receiver is gone, Ok when there is room, blocked otherwise
SendEndpoint(t) ==
    LET id == th[t].id IN
    /\ th[t].pc = "send_ep"
    /\ ~(Receivers(id) > 0 /\ Len(buf[id]) >= cap[id])
    /\ IF Receivers(id) = 0
       THEN /\ th' = Return(t, RetFalse)
            /\ scen' = ScenReturn(scen, id, "send", th[t].val, RetFalse)
            /\ buf' = buf
       ELSE /\ th' = Return(t, RetTrue)
            /\ scen' = ScenReturn(scen, id, "send", th[t].val, RetTrue)
            /\ buf' = [buf EXCEPT ![id] = Append(@, th[t].val)]
    /\ UNCHANGED <<callsLeft, registry, cap, nextId, lockHolder, issued, closedRet>>
    /\ UNCHANGED owed
    /\ UNCHANGED <<polVars, execVars, ru>>

\* receive / receive_blocking, lines 42-46, 58-60 / 64-68, 80-82: lock; absent
\* => None; otherwise clone the receiver, read entry.closed, drop the guard
RecvLookup(t, id, op) ==
    /\ CanCall(t)
    /\ callsLeft' = callsLeft - 1
    /\ IF registry[id] # "absent"
       THEN /\ th' = Enter(t, op, id, 0,
                           IF op = "receive" THEN "try_recv" ELSE "recv",
                           registry[id] = "closed")
            /\ lockHolder' = GuardAfterDrop(t)
            /\ scen' = ScenEnter(t, id)
       ELSE /\ th' = EnterReturn(t, op, id, 0, None)
            /\ lockHolder' = 0
            /\ scen' = ScenReturn(ScenEnter(t, id), id, op, 0, None)
    /\ UNCHANGED <<registry, buf, cap, nextId, issued, closedRet>>
    /\ UNCHANGED owed
    /\ UNCHANGED <<polVars, execVars, ru>>

\* the Err arm of receive / receive_blocking, lines 49-56 / 71-78
RecvFailed(t) ==
    IF th[t].closed
    THEN /\ th' = [th EXCEPT ![t].pc = "cleanup"]
         /\ scen' = scen
         /\ owed' = owed
    ELSE /\ th' = Return(t, None)
         /\ scen' = ScenReturn(scen, th[t].id, th[t].op, 0, None)
         /\ owed' = owed

\* the Ok arm: the head of the buffer is returned
RecvTaken(t) ==
    LET id == th[t].id IN
    /\ th' = Return(t, Some(Head(buf[id])))
    /\ scen' = ScenReturn(scen, id, th[t].op, 0, Some(Head(buf[id])))
    /\ buf' = [buf EXCEPT ![id] = Tail(@)]
    /\ owed' = [owed EXCEPT ![id] = IF @ > 0 THEN @ - 1 ELSE 0]

\* receive, lines 47-57: receiver.try_recv()
TryRecv(t) ==
    /\ th[t].pc = "try_recv"
    /\ IF buf[th[t].id] # <<>>
       THEN RecvTaken(t)
       ELSE RecvFailed(t) /\ buf' = buf
    /\ UNCHANGED <<callsLeft, registry, cap, nextId, lockHolder, issued, closedRet>>
    /\ UNCHANGED <<polVars, execVars, ru>>

\* receive_blocking, lines 69-79: receiver.recv(): a queued message, else Err
\* once every sender is gone, else blocked
Recv(t) ==
    /\ th[t].pc = "recv"
    /\ ~(buf[th[t].id] = <<>> /\ Senders(th[t].id) > 0)
    /\ IF buf[th[t].id] # <<>>
       THEN RecvTaken(t)
       ELSE RecvFailed(t) /\ buf' = buf
    /\ UNCHANGED <<callsLeft, registry, cap, nextId, lockHolder, issued, closedRet>>
    /\ UNCHANGED <<polVars, execVars, ru>>

\* a rendezvous (capacity 0): a sender blocked in send hands its value to a
\* receiver in recv or try_recv on the same channel; both calls return
Rendezvous(s, r) ==
    LET id == th[s].id IN
    /\ s # r
    /\ th[s].pc = "send_ep"
    /\ th[r].pc \in {"try_recv", "recv"}
    /\ th[r].id = id
    /\ cap[id] = 0
    /\ th' = [u \in Threads |->
                 IF u = s THEN Return(s, RetTrue)[s]
                 ELSE IF u = r THEN Return(r, Some(th[s].val))[r]
                 ELSE th[u]]
    /\ scen' = [scen EXCEPT ![id] = NoScen]
    /\ UNCHANGED <<callsLeft, registry, buf, cap, nextId, lockHolder, issued, closedRet>>
    /\ UNCHANGED owed
    /\ UNCHANGED <<polVars, execVars, ru>>

\* receive / receive_blocking, lines 52-55 / 74-77: lock; remove(&id); None
Cleanup(t) ==
    /\ th[t].pc = "cleanup"
    /\ lockHolder = 0
    /\ registry' = [registry EXCEPT ![th[t].id] = "absent"]
    /\ th' = Return(t, None)
    /\ scen' = ScenReturn(scen, th[t].id, th[t].op, 0, None)
    /\ UNCHANGED <<callsLeft, buf, cap, nextId, lockHolder, issued, closedRet>>
    /\ UNCHANGED owed
    /\ UNCHANGED <<polVars, execVars, ru>>

\* the entry close leaves for a channel whose entry it found
ClosedEntryDropped(id) == "absent"

\* the same, had close kept the entry whatever the buffer holds
ClosedEntryKept(id) == "closed"

ClosedEntry(id) == IF buf[id] = <<>> THEN "absent" ELSE "closed"

\* close, lines 85-101, all under the lock
Close(t, id) ==
    /\ CanCall(t)
    /\ callsLeft' = callsLeft - 1
    /\ th' = EnterReturn(t, "close", id, 0, RetTrue)
    /\ scen' = ScenReturn(ScenEnter(t, id), id, "close", 0, RetTrue)
    /\ IF registry[id] # "absent"
       THEN /\ registry' = [registry EXCEPT ![id] = ClosedEntry(id)]
            /\ closedRet' = closedRet \cup {id}
       ELSE UNCHANGED <<registry, closedRet>>
    /\ UNCHANGED <<buf, cap, nextId, lockHolder, issued>>
    /\ owed' = IF registry[id] = "open" THEN [owed EXCEPT ![id] = Len(buf[id])]
               ELSE owed
    /\ UNCHANGED <<polVars, execVars, ru>>

\* destroy, lines 103-106
Destroy(t, id) ==
    /\ CanCall(t)
    /\ callsLeft' = callsLeft - 1
    /\ th' = EnterReturn(t, "destroy", id, 0, RetTrue)
    /\ scen' = ScenReturn(ScenEnter(t, id), id, "destroy", 0, RetTrue)
    /\ registry' = [registry EXCEPT ![id] = "absent"]
    /\ UNCHANGED <<buf, cap, nextId, lockHolder, issued, closedRet>>
    /\ owed' = [owed EXCEPT ![id] = 0]
    /\ UNCHANGED <<polVars, execVars, ru>>

\* the registry before any call, with the number of calls to come
ChanInit(calls) ==
    /\ registry = [i \in Ids |-> "absent"]
    /\ buf = [i \in Ids |-> <<>>]
    /\ cap = [i \in Ids |-> 0]
    /\ nextId = 0
    /\ lockHolder = 0
    /\ th = [t \in Threads |-> Idle]
    /\ callsLeft = calls
    /\ issued = <<>>
    /\ closedRet = {}
    /\ scen = [i \in Ids |-> NoScen]
    /\ owed = [i \in Ids |-> 0]

(***************************************************************************)
(* executor.rs: what one invocation returns.  Guest modules are given by   *)
(* their bytes: bytes 0 is no valid module; module 1 exports               *)
(* "k" : () -> i64 (7), "one" : () -> i32 (1), "add" : (i32, i32) -> i32,  *)
(* "id32" : (i32) -> i32, "id64" : (i64) -> i64 and "spin", which loops    *)
(* without bound; module 2 exports "k" : () -> i64 (8) and                 *)
(* "half" : () -> f64; every further module exports a "k" of its own.      *)
(* The integer widths are scaled: i32 has I32Bits bits and i64 twice that. *)
(***************************************************************************)
Ok(v) == [ok |-> TRUE, val |-> v, err |-> <<>>]

Err(e) == [ok |-> FALSE, val |-> 0, err |-> e]

\* Val::I32 holds a bit pattern of I32Bits bits, Val::I64 the value itself
ValI32(bits) == [ty |-> "i32", bits |-> bits]

ValI64(v) == [ty |-> "i64", bits |-> v]

ValF64(v) == [ty |-> "f64", bits |-> v]

\* `v as i32` of an i64, had it saturated instead of wrapping
AsI32Saturating(v) ==
    LET hi == Pow2(I32Bits - 1) - 1
        lo == 0 - Pow2(I32Bits - 1)
        c == IF v > hi THEN hi ELSE IF v < lo THEN lo ELSE v
    IN  c % Pow2(I32Bits)

\* `v as i32` of an i64: the low I32Bits bits
AsI32(v) == v % Pow2(I32Bits)

\* `v as i64` of an i32: sign extension
I32AsI64(bits) ==
    IF bits >= Pow2(I32Bits - 1) THEN bits - Pow2(I32Bits) ELSE bits

\* the byte sequences submitted as modules
WasmBytes == 0..(HashSpace + 1)

\* hash_wasm_bytes: the u64 key of the bytes, on a scaled key space
hash_wasm_bytes(b) == b % HashSpace

\* Module::new(&*WASM_ENGINE, wasm_bytes) accepts the bytes
Compiles(b) == b # 0

Fn(ps, r, body, v, c) ==
    [params |-> ps, result |-> r, body |-> body, val |-> v, cost |-> c]

\* the exports of the module compiled from bytes b
Exports(b) ==
    CASE b = 1 ->
           [n \in {"k", "one", "add", "id32", "id64", "spin"} |->
              CASE n = "k" -> Fn(<<>>, "i64", "const", 7, 1)
                [] n = "one" -> Fn(<<>>, "i32", "const", 1, 1)
                [] n = "add" -> Fn(<<"i32", "i32">>, "i32", "add", 0, 3)
                [] n = "id32" -> Fn(<<"i32">>, "i32", "id", 0, 1)
                [] n = "id64" -> Fn(<<"i64">>, "i64", "id", 0, 1)
                [] OTHER -> Fn(<<>>, "i64", "loop", 0, 0)]
      [] b = 2 ->
           [n \in {"k", "half"} |->
              IF n = "k" THEN Fn(<<>>, "i64", "const", 8, 1)
              ELSE Fn(<<>>, "f64", "const", 0, 1)]
      [] b = 0 -> [n \in {} |-> Fn(<<>>, "i64", "const", 0, 1)]
      [] OTHER -> [n \in {"k"} |-> Fn(<<>>, "i64", "const", 6 + b, 1)]

\* the match on the declared type of a parameter
CoerceArg(v, ty) == IF ty = "i32" THEN ValI32(AsI32(v)) ELSE ValI64(v)

\* args.iter().zip(func_ty.params()), had it kept the arguments left over
WasmArgsAll(args, params) ==
    [i \in 1..Len(args) |->
        IF i <= Len(params) THEN CoerceArg(args[i], params[i]) ELSE ValI64(args[i])]

\* args.iter().zip(func_ty.params()): one value per pair, coerced to the
\* declared type
WasmArgs(args, params) ==
    LET n == IF Len(args) < Len(params) THEN Len(args) ELSE Len(params)
    IN  [i \in 1..n |-> CoerceArg(args[i], params[i])]

\* func.call checks the values against the declared parameters
ArgsAccepted(a, params) ==
    /\ Len(a) = Len(params)
    /\ \A i \in 1..Len(a) : a[i].ty = params[i]

\* the value a guest function leaves in results[0]
GuestValue(f, a) ==
    CASE f.body = "id" -> a[1]
      [] f.body = "add" -> ValI32((a[1].bits + a[2].bits) % Pow2(I32Bits))
      [] f.result = "i32" -> ValI32(f.val)
      [] f.result = "f64" -> ValF64(f.val)
      [] OTHER -> ValI64(f.val)

\* match results[0], had the I32 arm zero-extended
CoerceResultUnsigned(v) ==
    CASE v.ty = "i64" -> Ok(v.bits)
      [] v.ty = "i32" -> Ok(v.bits)
      [] OTHER -> Err(<<"unexpected return type">>)

\* match results[0]
CoerceResult(v) ==
    CASE v.ty = "i64" -> Ok(v.bits)
      [] v.ty = "i32" -> Ok(I32AsI64(v.bits))
      [] OTHER -> Err(<<"unexpected return type">>)

\* the guest runs out of the fuel of a fresh store before it returns
OutOfFuel(f) == f.body = "loop" \/ f.cost > FuelBudget

\* get_func, the coercion of the arguments, func.call and the coercion of the
\* result, on a fresh store with its own fuel; notFound and exec are the texts
\* the caller puts in front of the two errors
Invoke(b, func, args, notFound, exec) ==
    IF func \notin DOMAIN Exports(b)
    THEN Err(<<notFound, func>>)
    ELSE LET f == Exports(b)[func]
             a == WasmArgs(args, f.params)
         IN  IF ~ArgsAccepted(a, f.params) THEN Err(<<exec, "arguments">>)
             ELSE IF OutOfFuel(f) THEN Err(<<exec, "fuel">>)
             ELSE CoerceResult(GuestValue(f, a))

\* exec_wasm_sync, on bytes the cache holds no other module for
ExecWasmSync(task) ==
    IF ~Compiles(task.wasm)
    THEN Err(<<"compile">>)
    ELSE Invoke(task.wasm, task.func, task.args,
                "function not found", "WASM execution error")

\* exec_many_shared: the tasks of a chunk, each on a fresh store, all against
\* the module compiled from wasm
ExecManyShared(wasm, chunk) ==
    [i \in 1..Len(chunk) |->
        IF ~Compiles(wasm)
        THEN Err(<<"compile">>)
        ELSE Invoke(wasm, chunk[i].func, chunk[i].args, "func not found", "exec")]

(***************************************************************************)
(* executor.rs: exec_wasm_sync step by step, by worker threads that share  *)
(* MODULE_CACHE.  A worker holds the cache mutex only inside one step.     *)
(***************************************************************************)
ExecThreads == {1, 2}

Keys == 0..(HashSpace - 1)

ExecIdle ==
    [pc |-> "idle", wasm |-> 0, func |-> "", args |-> <<>>, late |-> FALSE,
     again |-> FALSE,
     module |-> 0, wargs |-> <<>>, fuel |-> 0, left |-> 0, ticks |-> 0,
     res |-> Err(<<>>)]

\* the function the worker has looked up in its instance
ExecFn(e) == Exports(ex[e].module)[ex[e].func]

ExecReturn(e, r) == [ex EXCEPT ![e].pc = "idle", ![e].res = r]

\* exec_wasm_sync(wasm_bytes, func_name, args) is entered
Exec_Call(e, task) ==
    /\ ex[e].pc = "idle"
    /\ execLeft > 0
    /\ execLeft' = execLeft - 1
    /\ ex' = [ex EXCEPT ![e] =
                [ExecIdle EXCEPT !.pc = "lookup", !.wasm = task.wasm,
                                 !.func = task.func, !.args = task.args,
                                 !.late = task.wasm \in doneOk,
                                 !.again = task.wasm \in doneErr]]
    /\ UNCHANGED <<cache, doneOk, doneErr>>
    /\ UNCHANGED <<chanVars, polVars, ru>>

\* get_or_compile_module: the lookup under the cache mutex
GetModule_Lookup(e) ==
    /\ ex[e].pc = "lookup"
    /\ LET h == hash_wasm_bytes(ex[e].wasm) IN
       IF cache[h].ok
       THEN /\ ex' = [ex EXCEPT ![e].pc = "instantiate", ![e].module = cache[h].val]
            /\ doneOk' = doneOk \cup {ex[e].wasm}
       ELSE /\ ex' = [ex EXCEPT ![e].pc = "compile"]
            /\ UNCHANGED doneOk
    /\ UNCHANGED <<cache, execLeft, doneErr>>
    /\ UNCHANGED <<chanVars, polVars, ru>>

\* Module::new(..), had its outcome been kept for the cache whatever it is
ModuleNewKept(e) == [ex EXCEPT ![e].pc = "insert", ![e].module = ex[e].wasm]

\* Module::new(..).map_err(|e| format!("compile: {}", e))?
ModuleNew(e) ==
    IF Compiles(ex[e].wasm)
    THEN [ex EXCEPT ![e].pc = "insert", ![e].module = ex[e].wasm]
    ELSE ExecReturn(e, Err(<<"compile">>))

\* get_or_compile_module: Module::new, outside the mutex
GetModule_Compile(e) ==
    /\ ex[e].pc = "compile"
    /\ ex' = ModuleNew(e)
    /\ doneErr' = IF ex'[e].pc = "idle" THEN doneErr \cup {ex[e].wasm} ELSE doneErr
    /\ UNCHANGED <<cache, execLeft, doneOk>>
    /\ UNCHANGED <<chanVars, polVars, ru>>

\* cache.insert, had it been left out
CacheInsertSkipped(c, h, m) == c

\* cache.insert(hash, module.clone())
CacheInsert(c, h, m) == [c EXCEPT ![h] = Some(m)]

\* get_or_compile_module: the insert under the cache mutex, and Ok(module)
GetModule_Insert(e) ==
    /\ ex[e].pc = "insert"
    /\ cache' = CacheInsert(cache, hash_wasm_bytes(ex[e].wasm), ex[e].module)
    /\ ex' = [ex EXCEPT ![e].pc = "instantiate"]
    /\ doneOk' = doneOk \cup {ex[e].wasm}
    /\ UNCHANGED <<execLeft, doneErr>>
    /\ UNCHANGED <<chanVars, polVars, ru>>

\* Store::new, set_fuel, Instance::new, get_func, and the coercion of the
\* arguments; func.call refuses values that do not fit the parameters
Exec_Instantiate(e) ==
    /\ ex[e].pc = "instantiate"
    /\ IF ex[e].func \notin DOMAIN Exports(ex[e].module)
       THEN ex' = ExecReturn(e, Err(<<"function not found", ex[e].func>>))
       ELSE LET a == WasmArgs(ex[e].args, ExecFn(e).params) IN
            IF ~ArgsAccepted(a, ExecFn(e).params)
            THEN ex' = [ExecReturn(e, Err(<<"WASM execution error", "arguments">>))
                           EXCEPT ![e].wargs = a]
            ELSE ex' = [ex EXCEPT ![e].pc = "run", ![e].wargs = a,
                                  ![e].fuel = FuelBudget,
                                  ![e].left = ExecFn(e).cost]
    /\ UNCHANGED <<cache, execLeft, doneOk, doneErr>>
    /\ UNCHANGED <<chanVars, polVars, ru>>

\* the fuel left after one guest instruction, had fuel not been consumed
FuelAfterFree(fuel) == fuel

\* the fuel left after one guest instruction (config.consume_fuel(true))
FuelAfter(fuel) == fuel - 1

\* func.call: the guest returns, traps for lack of fuel, or executes one
\* more instruction
Exec_Run(e) ==
    /\ ex[e].pc = "run"
    /\ ex[e].ticks <= FuelBudget
    /\ IF ExecFn(e).body # "loop" /\ ex[e].left = 0
       THEN ex' = ExecReturn(e, CoerceResult(GuestValue(ExecFn(e), ex[e].wargs)))
       ELSE IF ex[e].fuel = 0
       THEN ex' = ExecReturn(e, Err(<<"WASM execution error", "fuel">>))
       ELSE ex' = [ex EXCEPT ![e].fuel = FuelAfter(@),
                             ![e].ticks = @ + 1,
                             ![e].left = IF ExecFn(e).body = "loop" THEN @ ELSE @ - 1]
    /\ UNCHANGED <<cache, execLeft, doneOk, doneErr>>
    /\ UNCHANGED <<chanVars, polVars, ru>>

\* no exec_wasm_sync call, and none to come
NoExec ==
    /\ cache = [h \in Keys |-> None]
    /\ ex = [e \in ExecThreads |-> ExecIdle]
    /\ execLeft = 0
    /\ doneOk = {}
    /\ doneErr = {}

ExecInit(calls) ==
    /\ cache = [h \in Keys |-> None]
    /\ ex = [e \in ExecThreads |-> ExecIdle]
    /\ execLeft = calls
    /\ doneOk = {}
    /\ doneErr = {}

ExecStep(e) ==
    \/ GetModule_Lookup(e)
    \/ GetModule_Compile(e)
    \/ GetModule_Insert(e)
    \/ Exec_Instantiate(e)
    \/ Exec_Run(e)

(***************************************************************************)
(* executor.rs: exec_many_shared_reuse, task by task.  One store and one   *)
(* instance serve the whole chunk, so the fuel set at the start is what    *)
(* all the tasks of the chunk have between them.                           *)
(***************************************************************************)
ReuseIdle ==
    [pc |-> "idle", wasm |-> 0, tasks |-> <<>>, path |-> "none", i |-> 1,
     fuel |-> 0, results |-> <<>>]

\* no exec_many_shared_reuse call
NoReuse == ru = ReuseIdle

\* get_typed_func::<Params, Result> succeeds for the signature of f, among
\* those tried for nargs arguments
TypedSig(nargs, f) ==
    CASE nargs = 2 /\ f.params = <<"i32", "i32">> /\ f.result = "i32" -> "i32i32_i32"
      [] nargs = 2 /\ f.params = <<"i64", "i64">> /\ f.result = "i64" -> "i64i64_i64"
      [] nargs = 1 /\ f.params = <<"i32">> /\ f.result = "i32" -> "i32_i32"
      [] nargs = 1 /\ f.params = <<"i64">> /\ f.result = "i64" -> "i64_i64"
      [] nargs = 0 /\ f.params = <<>> /\ f.result = "i32" -> "unit_i32"
      [] OTHER -> "none"

\* try_typed_batch: the fast path found for the first task's function and
\* argument count, "none" when it returns None
try_typed_batch(b, func_name, nargs) ==
    IF func_name \notin DOMAIN Exports(b) THEN "none"
    ELSE TypedSig(nargs, Exports(b)[func_name])

\* func.call / f.call on the shared store: the outcome and the fuel left
CallShared(f, a, fuel) ==
    IF f.body = "loop" \/ f.cost > fuel
    THEN [res |-> Err(<<"exec", "fuel">>), fuel |-> 0]
    ELSE [res |-> CoerceResult(GuestValue(f, a)), fuel |-> fuel - f.cost]

\* the call returns rs
ReuseReturn(rs) == [ru EXCEPT !.pc = "done", !.results = rs]

\* lines 126-159: empty chunk, compile, store with its fuel, instance, and
\* the choice of the typed path from the first task
Reuse_Setup ==
    /\ ru.pc = "start"
    /\ IF ru.tasks = <<>>
       THEN ru' = ReuseReturn(<<>>)
       ELSE IF ~Compiles(ru.wasm)
       THEN ru' = ReuseReturn([j \in 1..Len(ru.tasks) |-> Err(<<"compile">>)])
       ELSE LET path == try_typed_batch(ru.wasm, ru.tasks[1].func,
                                        Len(ru.tasks[1].args))
            IN  ru' = [ru EXCEPT !.pc = IF path = "none" THEN "dyn" ELSE "typed",
                                 !.path = path, !.fuel = FuelBudget]
    /\ UNCHANGED <<chanVars, polVars, execVars>>

\* try_typed_batch, one turn of its loop: the handle of the first task's
\* function is called with args[0], args[1] of the task, whatever the task
\* names; indexing past the end of args panics
Reuse_Typed ==
    /\ ru.pc = "typed"
    /\ IF ru.i > Len(ru.tasks)
       THEN ru' = ReuseReturn(ru.results)
       ELSE LET f == Exports(ru.wasm)[ru.tasks[1].func]
                args == ru.tasks[ru.i].args
            IN  IF Len(args) < Len(f.params)
                THEN ru' = [ru EXCEPT !.pc = "panicked"]
                ELSE LET r == CallShared(f, WasmArgs(args, f.params), ru.fuel)
                     IN  ru' = [ru EXCEPT !.results = Append(@, r.res),
                                          !.fuel = r.fuel, !.i = @ + 1]
    /\ UNCHANGED <<chanVars, polVars, execVars>>

\* the fallback, lines 164-198, one task: the function is looked up by the
\* task's own name (func_cache only saves the lookup)
Reuse_Dyn ==
    /\ ru.pc = "dyn"
    /\ IF ru.i > Len(ru.tasks)
       THEN ru' = ReuseReturn(ru.results)
       ELSE LET t == ru.tasks[ru.i] IN
            IF t.func \notin DOMAIN Exports(ru.wasm)
            THEN ru' = [ru EXCEPT !.results = Append(@, Err(<<"func not found", t.func>>)),
                                  !.i = @ + 1]
            ELSE LET f == Exports(ru.wasm)[t.func]
                     a == WasmArgs(t.args, f.params)
                 IN  IF ~ArgsAccepted(a, f.params)
                     THEN ru' = [ru EXCEPT
                                   !.results = Append(@, Err(<<"exec", "arguments">>)),
                                   !.i = @ + 1]
                     ELSE LET r == CallShared(f, a, ru.fuel)
                          IN  ru' = [ru EXCEPT !.results = Append(@, r.res),
                                               !.fuel = r.fuel, !.i = @ + 1]
    /\ UNCHANGED <<chanVars, polVars, execVars>>

(***************************************************************************)
(* lib.rs: the concurrency policies.  A blocking job (spawn_blocking) is   *)
(* queued, is picked up by a thread of the blocking pool, and runs to its  *)
(* end; abort() cancels a job only while it is queued.                     *)
(***************************************************************************)
Policies == {"all", "shared", "first", "timeout", "cancel"}

Pending == [kind |-> "pending", vals |-> <<>>, err |-> <<>>]

RetOk(vs) == [kind |-> "ok", vals |-> vs, err |-> <<>>]

\* Error::from_reason(e)
RetErr(e) == [kind |-> "err", vals |-> <<>>, err |-> e]

N == Len(tasks)

\* the chunk size, had the division not been rounded up
ChunkSizeFloor ==
    LET c == N \div ChunkCount IN IF c < 1 THEN 1 ELSE c

\* chunk_size = (tasks.len() + 7) / 8, and chunks(chunk_size.max(1))
ChunkSize ==
    LET c == (N + ChunkCount - 1) \div ChunkCount IN IF c < 1 THEN 1 ELSE c

\* the chunks, had the remainder been left out (chunks_exact)
NumChunksExact(n, c) == n \div c

\* task_data.chunks(c): full chunks and one for the remainder
NumChunksOf(n, c) == (n + c - 1) \div c

Chunk(j) ==
    LET lo == (j - 1) * ChunkSize + 1
        hi == IF j * ChunkSize < N THEN j * ChunkSize ELSE N
    IN  SubSeq(tasks, lo, hi)

\* the blocking jobs of the call: one per chunk (shared), else one per task
NJobs == IF policy = "shared" THEN NumChunksOf(N, ChunkSize) ELSE N

Jobs == 1..NJobs

\* wasm_bytes = tasks[0].wasm.to_vec(): the module every chunk runs against
SharedWasm == tasks[1].wasm

\* what the handle of job j yields once the job is done
JobResults(j) ==
    IF policy = "shared"
    THEN ExecManyShared(SharedWasm, Chunk(j))
    ELSE <<ExecWasmSync(tasks[j])>>

RECURSIVE FirstErrIn(_, _)
\* the index of the first Err of rs at or after i, 0 if there is none
FirstErrIn(rs, i) ==
    IF i > Len(rs) THEN 0
    ELSE IF ~rs[i].ok THEN i
    ELSE FirstErrIn(rs, i + 1)

ValsOf(rs) == [i \in 1..Len(rs) |-> rs[i].val]

\* a blocking-pool thread picks up job j
Pool_Start(j) ==
    /\ mainPc # "start"
    /\ j \in DOMAIN st
    /\ st[j] = "queued"
    /\ st' = [st EXCEPT ![j] = "running"]
    /\ UNCHANGED <<policy, tasks, slow, outer, txSlot, rxMsg, deadline, mainPc, k,
                   results, ret>>
    /\ UNCHANGED <<chanVars, execVars, ru>>

\* job j runs to its end; a task whose runtime exceeds the timeout does not
\* end before the deadline
Pool_Finish(j) ==
    /\ mainPc # "start"
    /\ j \in DOMAIN st
    /\ st[j] = "running"
    /\ j \in slow => deadline
    /\ st' = [st EXCEPT ![j] = "done"]
    /\ UNCHANGED <<policy, tasks, slow, outer, txSlot, rxMsg, deadline, mainPc, k,
                   results, ret>>
    /\ UNCHANGED <<chanVars, execVars, ru>>

\* h.abort() on every handle: a queued job never runs, a running one goes on
AbortJobs == [j \in DOMAIN st |-> IF st[j] = "queued" THEN "cancelled" ELSE st[j]]

\* dropping the handles detaches the jobs
DetachJobs == st

\* the fan-out loops of concurrent_wasm, concurrent_wasm_timeout and
\* concurrent_wasm_cancel_on_error: every task is handed to spawn_blocking
Spawn(p) ==
    /\ policy = p
    /\ mainPc = "start"
    /\ st' = [j \in Jobs |-> "queued"]
    /\ mainPc' = "await"
    /\ UNCHANGED <<policy, tasks, slow, outer, txSlot, rxMsg, deadline, k, results,
                   ret>>
    /\ UNCHANGED <<chanVars, execVars, ru>>

\* results.push(r), for every r the handle yielded
PushFront(acc, vs) == vs \o acc

Push(acc, vs) == acc \o vs

\* the loop, had it taken the error of whichever job has failed
AwaitHandleUnordered(p) ==
    /\ policy = p
    /\ mainPc = "await"
    /\ \E j \in Jobs : st[j] = "done" /\ FirstErrIn(JobResults(j), 1) # 0
    /\ \E j \in Jobs :
          /\ st[j] = "done"
          /\ FirstErrIn(JobResults(j), 1) # 0
          /\ ret' = RetErr(JobResults(j)[FirstErrIn(JobResults(j), 1)].err)
    /\ mainPc' = "returned"
    /\ UNCHANGED <<policy, tasks, slow, st, outer, txSlot, rxMsg, deadline, k,
                   results>>
    /\ UNCHANGED <<chanVars, execVars, ru>>

\* one turn of `for handle in handles { handle.await?...; results.push(r) }`
AwaitHandle(p) ==
    /\ policy = p
    /\ mainPc = "await"
    /\ k \in Jobs
    /\ st[k] = "done"
    /\ LET rs == JobResults(k)
           bad == FirstErrIn(rs, 1)
       IN  IF bad # 0
           THEN /\ ret' = RetErr(rs[bad].err)
                /\ mainPc' = "returned"
                /\ st' = DetachJobs
                /\ UNCHANGED <<k, results>>
           ELSE /\ results' = Push(results, ValsOf(rs))
                /\ k' = k + 1
                /\ UNCHANGED <<ret, mainPc, st>>
    /\ UNCHANGED <<policy, tasks, slow, outer, txSlot, rxMsg, deadline>>
    /\ UNCHANGED <<chanVars, execVars, ru>>

\* Ok(results) after the loop
ReturnAll(p) ==
    /\ policy = p
    /\ mainPc = "await"
    /\ k = NJobs + 1
    /\ ret' = RetOk(results)
    /\ mainPc' = "returned"
    /\ UNCHANGED <<policy, tasks, slow, st, outer, txSlot, rxMsg, deadline, k,
                   results>>
    /\ UNCHANGED <<chanVars, execVars, ru>>

\* ---- concurrent_wasm (ALL)
All_Spawn == Spawn("all")

All_Await == AwaitHandle("all")

All_Return == ReturnAll("all")

\* ---- concurrent_wasm_shared (CHUNKED_SHARED)
Shared_Spawn ==
    /\ policy = "shared"
    /\ mainPc = "start"
    /\ IF tasks = <<>>
       THEN /\ ret' = RetOk(<<>>)
            /\ mainPc' = "returned"
            /\ st' = st
       ELSE /\ st' = [j \in Jobs |-> "queued"]
            /\ mainPc' = "await"
            /\ ret' = ret
    /\ UNCHANGED <<policy, tasks, slow, outer, txSlot, rxMsg, deadline, k, results>>
    /\ UNCHANGED <<chanVars, execVars, ru>>

Shared_Await == AwaitHandle("shared")

Shared_Return == ReturnAll("shared")

\* ---- concurrent_wasm_timeout (TIMEOUT)
Timeout_Spawn == Spawn("timeout")

\* the loop inside tokio::time::timeout, polled before the deadline
Timeout_Await == AwaitHandle("timeout")

Timeout_Return == ReturnAll("timeout")

RECURSIVE InnerPoll(_, _)
\* a poll of the loop from handle i on with the results acc collected: it goes
\* on over the handles that are done, to an error, to the end, or to a handle
\* that is not done
InnerPoll(i, acc) ==
    IF i > NJobs THEN RetOk(acc)
    ELSE IF st[i] # "done" THEN Pending
    ELSE IF FirstErrIn(JobResults(i), 1) # 0
         THEN RetErr(JobResults(i)[FirstErrIn(JobResults(i), 1)].err)
    ELSE InnerPoll(i + 1, Push(acc, ValsOf(JobResults(i))))

\* what Timeout yields when the timer has fired and the poll of the loop
\* gave r: Pending means the call goes on waiting
AtDeadlineWait(r) == r

AtDeadline(r) == IF r.kind = "pending" THEN RetErr(<<"concurrent timeout">>) ELSE r

\* the deadline elapses and Timeout is polled: first the loop, then the timer
Timeout_Deadline ==
    /\ policy = "timeout"
    /\ mainPc = "await"
    /\ ~deadline
    /\ deadline' = TRUE
    /\ LET r == InnerPoll(k, results) IN
       IF AtDeadline(r).kind = "pending"
       THEN UNCHANGED <<st, ret, mainPc>>
       ELSE /\ ret' = AtDeadline(r)
            /\ mainPc' = "returned"
            /\ st' = IF r.kind = "pending" THEN AbortJobs ELSE DetachJobs
    /\ UNCHANGED <<policy, tasks, slow, outer, txSlot, rxMsg, k, results>>
    /\ UNCHANGED <<chanVars, execVars, ru>>

\* ---- concurrent_wasm_cancel_on_error (CANCEL_ON_ERROR)
Cancel_Spawn == Spawn("cancel")

DoneJobs == {j \in Jobs : st[j] = "done"}

FailedJobs == {j \in DoneJobs : ~JobResults(j)[1].ok}

Min(S) == CHOOSE x \in S : \A y \in S : x <= y

Max(S) == CHOOSE x \in S : \A y \in S : x >= y

\* try_join_all is ready as soon as one future has failed, or all are done
CancelReadySeq ==
    \/ \E j \in FailedJobs : \A i \in 1..(j - 1) : i \in DoneJobs
    \/ DoneJobs = Jobs

CancelReady == FailedJobs # {} \/ DoneJobs = Jobs

\* a poll of try_join_all polls the futures in index order and returns the
\* first Err it finds
CancelError == Min(FailedJobs)

Cancel_Poll ==
    /\ policy = "cancel"
    /\ mainPc = "await"
    /\ CancelReady
    /\ IF FailedJobs # {}
       THEN ret' = RetErr(JobResults(CancelError)[1].err)
       ELSE ret' = RetOk([j \in Jobs |-> JobResults(j)[1].val])
    /\ mainPc' = "returned"
    /\ st' = DetachJobs
    /\ UNCHANGED <<policy, tasks, slow, outer, txSlot, rxMsg, deadline, k, results>>
    /\ UNCHANGED <<chanVars, execVars, ru>>

\* ---- concurrent_wasm_first (FIRST)
\* lines 153-177: no tasks is an error; else one async wrapper task per task,
\* each holding a clone of the Arc around the oneshot sender
First_Spawn ==
    /\ policy = "first"
    /\ mainPc = "start"
    /\ IF tasks = <<>>
       THEN /\ ret' = RetErr(<<"no tasks provided">>)
            /\ mainPc' = "returned"
            /\ UNCHANGED <<st, outer>>
       ELSE /\ st' = [j \in Jobs |-> "none"]
            /\ outer' = [j \in Jobs |-> "spawned"]
            /\ mainPc' = "await"
            /\ ret' = ret
    /\ UNCHANGED <<policy, tasks, slow, txSlot, rxMsg, deadline, k, results>>
    /\ UNCHANGED <<chanVars, execVars, ru>>

\* lines 166-169: the wrapper's first poll hands the invocation to
\* spawn_blocking and awaits it
First_TaskPoll(j) ==
    /\ policy = "first"
    /\ j \in DOMAIN outer
    /\ outer[j] = "spawned"
    /\ outer' = [outer EXCEPT ![j] = "awaiting"]
    /\ st' = [st EXCEPT ![j] = "queued"]
    /\ UNCHANGED <<policy, tasks, slow, txSlot, rxMsg, deadline, mainPc, k, results,
                   ret>>
    /\ UNCHANGED <<chanVars, execVars, ru>>

\* `if let Ok(v) = &result`: which results a wrapper reports
NotifiesAnyResult(r) == TRUE

Notifies(r) == r.ok

\* lines 170-175: the invocation is over; on Ok the wrapper takes the sender,
\* if it is still there, and sends the value; the wrapper ends
First_TaskEnd(j) ==
    /\ policy = "first"
    /\ j \in DOMAIN outer
    /\ outer[j] = "awaiting"
    /\ st[j] = "done"
    /\ outer' = [outer EXCEPT ![j] = "finished"]
    /\ IF Notifies(JobResults(j)[1]) /\ txSlot = "some"
       THEN /\ txSlot' = "taken"
            /\ rxMsg' = IF mainPc = "returned" THEN rxMsg
                        ELSE Append(rxMsg, JobResults(j)[1])
       ELSE UNCHANGED <<txSlot, rxMsg>>
    /\ UNCHANGED <<policy, tasks, slow, st, deadline, mainPc, k, results, ret>>
    /\ UNCHANGED <<chanVars, execVars, ru>>

\* the `tx` of line 158 is a local of the call and lives until it returns
CallerHoldsTxDropped == FALSE

CallerHoldsTx == mainPc # "returned"

\* the clones of the Arc that are alive
TxHolders ==
    (IF CallerHoldsTx THEN 1 ELSE 0)
        + Cardinality({j \in DOMAIN outer : outer[j] \in {"spawned", "awaiting"}})

\* the oneshot sender was dropped without a send
SenderDropped == txSlot = "some" /\ TxHolders = 0

WrappersOver == \A j \in DOMAIN outer : outer[j] \in {"finished", "aborted"}

\* lines 188-195: last_err after the loop over the handles
LastErr ==
    LET failed == {j \in DOMAIN outer :
                      outer[j] = "aborted" \/ ~JobResults(j)[1].ok}
    IN  IF failed = {} THEN <<"all tasks failed">>
        ELSE IF outer[Max(failed)] = "aborted" THEN <<"join", "cancelled">>
        ELSE JobResults(Max(failed))[1].err

\* h.abort() on every wrapper: one that has not ended is dropped at its await
AbortWrappers ==
    [j \in DOMAIN outer |-> IF outer[j] = "finished" THEN "finished" ELSE "aborted"]

\* lines 180-198: rx.await resolves when a value was sent or the sender was
\* dropped.  Ok(Ok(v)): abort the wrappers and return v.  Otherwise await every
\* handle, keeping the last error, and return it.
First_Await ==
    /\ policy = "first"
    /\ mainPc = "await"
    /\ IF rxMsg # <<>> /\ Head(rxMsg).ok
       THEN /\ outer' = AbortWrappers
            /\ ret' = RetOk(<<Head(rxMsg).val>>)
       ELSE /\ rxMsg # <<>> \/ SenderDropped
            /\ WrappersOver
            /\ outer' = outer
            /\ ret' = RetErr(LastErr)
    /\ mainPc' = "returned"
    /\ UNCHANGED <<policy, tasks, slow, st, txSlot, rxMsg, deadline, k, results>>
    /\ UNCHANGED <<chanVars, execVars, ru>>

(***************************************************************************)
(* One call of a policy function, for every task list, and for TIMEOUT     *)
(* every choice of the tasks that outlast the deadline.                    *)
(***************************************************************************)
Task(w, f) == [wasm |-> w, func |-> f, args |-> <<>>]

\* k and one of module 1 (7 and 1), k of module 2 (8), an export module 1
\* does not have, bytes that do not compile
TaskPool ==
    {Task(1, "k"), Task(1, "one"), Task(2, "k"), Task(1, "nope"), Task(0, "k")}

TaskLists == UNION {[1..n -> TaskPool] : n \in 0..MaxTasks}

\* base repeated over and over, cut at n tasks
Extend(base, n) == [i \in 1..n |-> base[((i - 1) % Len(base)) + 1]]

NoCall ==
    /\ policy = "none"
    /\ tasks = <<>>
    /\ slow = {}
    /\ st = <<>>
    /\ outer = <<>>
    /\ txSlot = "some"
    /\ rxMsg = <<>>
    /\ deadline = FALSE
    /\ mainPc = "returned"
    /\ k = 1
    /\ results = <<>>
    /\ ret = Pending

PolicyInit ==
    /\ ChanInit(0)
    /\ NoExec
    /\ NoReuse
    /\ policy \in Policies
    /\ \E base \in TaskLists, d \in 0..MaxOver :
          /\ d > 0 => policy = "shared" /\ base # <<>>
          /\ tasks = IF d = 0 THEN base ELSE Extend(base, ChunkCount + d)
    /\ slow \in SUBSET (1..Len(tasks))
    /\ slow # {} => policy = "timeout"
    /\ st = <<>>
    /\ outer = <<>>
    /\ txSlot = "some"
    /\ rxMsg = <<>>
    /\ deadline = FALSE
    /\ mainPc = "start"
    /\ k = 1
    /\ results = <<>>
    /\ ret = Pending

PolicyNext ==
    \/ All_Spawn
    \/ All_Await
    \/ All_Return
    \/ Shared_Spawn
    \/ Shared_Await
    \/ Shared_Return
    \/ Timeout_Spawn
    \/ Timeout_Await
    \/ Timeout_Return
    \/ Timeout_Deadline
    \/ Cancel_Spawn
    \/ Cancel_Poll
    \/ First_Spawn
    \/ \E j \in 1..Len(tasks) : First_TaskPoll(j)
    \/ \E j \in 1..Len(tasks) : First_TaskEnd(j)
    \/ First_Await
    \/ \E j \in 1..Len(tasks) : Pool_Start(j)
    \/ \E j \in 1..Len(tasks) : Pool_Finish(j)

PolicySpec == PolicyInit /\ [][PolicyNext]_vars

(***************************************************************************)
(* The channel registry under concurrent callers.                          *)
(***************************************************************************)
Init == ChanInit(MaxOps) /\ NoCall /\ NoExec /\ NoReuse

\* one caller making its calls one after the other
SeqInit == ChanInit(MaxSeqOps) /\ NoCall /\ NoExec /\ NoReuse

Call(t) ==
    \/ \E c \in Caps : CreateAlloc(t, c)
    \/ \E id \in Ids, v \in Vals : SendLookup(t, id, v)
    \/ \E id \in Ids : RecvLookup(t, id, "receive")
    \/ \E id \in Ids : RecvLookup(t, id, "receive_blocking")
    \/ \E id \in Ids : Close(t, id)
    \/ \E id \in Ids : Destroy(t, id)

Step(t) ==
    \/ CreateInsert(t)
    \/ SendEndpoint(t)
    \/ TryRecv(t)
    \/ Recv(t)
    \/ Cleanup(t)

Next ==
    \/ \E t \in Threads : Call(t)
    \/ \E t \in Threads : Step(t)
    \/ \E s, r \in Threads : Rendezvous(s, r)

SeqNext ==
    \/ Call(1)
    \/ Step(1)

Spec == Init /\ [][Next]_vars

SeqSpec == SeqInit /\ [][SeqNext]_vars

\* a call other than destroy
CallKeep(t) ==
    \/ \E c \in Caps : CreateAlloc(t, c)
    \/ \E id \in Ids, v \in Vals : SendLookup(t, id, v)
    \/ \E id \in Ids : RecvLookup(t, id, "receive")
    \/ \E id \in Ids : RecvLookup(t, id, "receive_blocking")
    \/ \E id \in Ids : Close(t, id)

NoDestroyNext ==
    \/ \E t \in Threads : CallKeep(t)
    \/ \E t \in Threads : Step(t)
    \/ \E s, r \in Threads : Rendezvous(s, r)

NoDestroyInit == ChanInit(MaxKeepOps) /\ NoCall /\ NoExec /\ NoReuse

\* the concurrent callers when none of them calls destroy
NoDestroySpec == NoDestroyInit /\ [][NoDestroyNext]_vars

\* the callers are threads of their own: a thread that is inside a call and
\* whose next step stays possible takes it
FairSpec == Spec /\ \A t \in Threads : WF_vars(Step(t))

\* the calls of the workers that share the cache: a "k" of every module, and
\* the loop
CacheTasks == {Task(b, "k") : b \in WasmBytes} \cup {Task(1, "spin")}

\* the values arguments are drawn from
ArgVals == {I64Min, 0 - 1, 2, 3, Pow2(I32Bits - 1), I64Max}

ArgLists == {<<>>} \cup {<<v>> : v \in ArgVals} \cup (ArgVals \X ArgVals)

\* the calls of a single worker: the functions of module 1 on all argument
\* lists, and the export that returns an f64
ArgTasks ==
    {[wasm |-> 1, func |-> f, args |-> a] :
        f \in {"k", "one", "add", "id32", "id64", "spin", "nope"}, a \in ArgLists}
    \cup {Task(2, "half"), Task(0, "k")}

ExecSpecInit == ChanInit(0) /\ NoCall /\ ExecInit(MaxExecCalls) /\ NoReuse

SeqExecInit == ChanInit(0) /\ NoCall /\ ExecInit(MaxSeqExecCalls) /\ NoReuse

ExecNext ==
    \E e \in ExecThreads :
        \/ \E task \in CacheTasks : Exec_Call(e, task)
        \/ ExecStep(e)

SeqExecNext ==
    \/ \E task \in ArgTasks : Exec_Call(1, task)
    \/ ExecStep(1)

ExecSpec == ExecSpecInit /\ [][ExecNext]_vars

SeqExecSpec == SeqExecInit /\ [][SeqExecNext]_vars

\* the values the arguments of a chunk are drawn from
ChunkArgVals == {0 - 1, 2, 3}

ChunkArgLists ==
    {<<>>} \cup {<<v>> : v \in ChunkArgVals} \cup (ChunkArgVals \X ChunkArgVals)

\* the (func_name, args) pairs of a chunk
ChunkTasks ==
    {[func |-> f, args |-> a] :
        f \in {"k", "one", "add", "id32", "id64", "spin", "nope"},
        a \in ChunkArgLists}

Chunks == UNION {[1..n -> ChunkTasks] : n \in 0..MaxChunk}

\* exec_many_shared_reuse(wasm_bytes, tasks) is entered
ReuseInit ==
    /\ ChanInit(0)
    /\ NoCall
    /\ NoExec
    /\ \E b \in {0, 1}, c \in Chunks :
          ru = [ReuseIdle EXCEPT !.pc = "start", !.wasm = b, !.tasks = c]

ReuseNext ==
    \/ Reuse_Setup
    \/ Reuse_Typed
    \/ Reuse_Dyn

ReuseSpec == ReuseInit /\ [][ReuseNext]_vars

(***************************************************************************)
(* Claims about the channel registry.                                      *)
(***************************************************************************)

\* C1: when send(c,v1)..send(c,vk) have each returned true and close(c) is then
\* called, the next k calls of receive_blocking(c) return Some(v1)..Some(vk)
\* in that order and the (k+1)-th call returns None.
C1_FifoThenNone ==
    \A id \in Ids :
        scen[id].phase = "closed" =>
            \A j \in 1..Len(scen[id].got) :
                scen[id].got[j] = IF j <= Len(scen[id].sent)
                                  THEN Some(scen[id].sent[j])
                                  ELSE None

\* two different values were sent, the channel was closed and three
\* receive_blocking calls have returned
C1_Witness ==
    \E id \in Ids :
        /\ scen[id].phase = "closed"
        /\ Len(scen[id].sent) = 2
        /\ scen[id].sent[1] # scen[id].sent[2]
        /\ Len(scen[id].got) = 3

\* C2: once a close(id) that found the channel has returned, no send(id, v)
\* completes with result true, whatever the interleaving of the calls.
C2_NoSendAfterClose ==
    [][\A t \in Threads :
          (th[t].pc = "send_ep" /\ th'[t].pc = "idle" /\ th'[t].res.ok)
              => th[t].id \notin closedRet]_vars

\* C3: the ids create takes are 0, 1, 2, ... in allocation order: they start
\* at 0, strictly increase, and none is taken twice, also after channels
\* were closed, drained or destroyed.
C3_IdsFresh == \A i \in 1..Len(issued) : issued[i] = i - 1

\* one caller created channel 0, closed it, and is creating again
C3_Witness ==
    /\ Len(issued) = 2
    /\ 0 \in closedRet
    /\ registry[0] = "absent"
    /\ th[2].op = "none"
    /\ th[1].pc = "create_insert"

(***************************************************************************)
(* Claims about the concurrency policies.                                  *)
(***************************************************************************)
TaskFails(i) == ~ExecWasmSync(tasks[i]).ok

FailingTasks == {i \in 1..N : TaskFails(i)}

TimeoutError == RetErr(<<"concurrent timeout">>)

\* C4: when every task of a non-empty concurrent_wasm_first group fails, the
\* call returns (it is never left waiting with nothing that could wake it),
\* and what it returns is the error of one of the tasks.
C4_AllFailReturnsError ==
    (policy = "first" /\ tasks # <<>> /\ FailingTasks = 1..N) =>
        /\ mainPc = "returned" \/ ENABLED PolicyNext
        /\ mainPc = "returned" =>
              /\ ret.kind = "err"
              /\ \E i \in 1..N : ret.err = ExecWasmSync(tasks[i]).err

\* C5: when a task of a concurrent_wasm_first group has succeeded, a call
\* that has returned has returned success, with the value of a task that
\* succeeded; at most one value is ever sent to the caller.
C5_FirstReturnsASuccess ==
    /\ Len(rxMsg) <= 1
    /\ (/\ policy = "first"
        /\ mainPc = "returned"
        /\ \E j \in DOMAIN st : st[j] = "done" /\ ~TaskFails(j))
       => /\ ret.kind = "ok"
          /\ \E j \in DOMAIN st :
                /\ st[j] = "done"
                /\ ~TaskFails(j)
                /\ ret.vals = <<ExecWasmSync(tasks[j]).val>>

\* two tasks succeeded with different values, both wrappers reached the
\* sender, and the call returned
C5_Witness ==
    /\ policy = "first"
    /\ mainPc = "returned"
    /\ \E i, j \in DOMAIN outer :
          /\ outer[i] = "finished" /\ outer[j] = "finished"
          /\ ~TaskFails(i) /\ ~TaskFails(j)
          /\ ExecWasmSync(tasks[i]).val # ExecWasmSync(tasks[j]).val

\* C6 as stated: with a task whose runtime exceeds T in the list,
\* concurrent_wasm_timeout returns TimeoutError, whatever the other tasks do.
C6_TimeoutWheneverSlow ==
    (policy = "timeout" /\ slow # {} /\ mainPc = "returned") => ret = TimeoutError

\* C6 amended: with a task whose runtime exceeds T in the list,
\* concurrent_wasm_timeout never returns success; it returns TimeoutError
\* unless a task in front of every such task fails, and what it returns then
\* is TimeoutError or the error of the first failing task.
C6_TimeoutUnlessEarlierFailure ==
    (policy = "timeout" /\ slow # {} /\ mainPc = "returned") =>
        LET early == {i \in FailingTasks : i < Min(slow)} IN
        /\ ret.kind = "err"
        /\ early = {} => ret = TimeoutError
        /\ ret # TimeoutError =>
              /\ early # {}
              /\ ret = RetErr(ExecWasmSync(tasks[Min(early)]).err)

\* the call timed out although a task behind the slow one had already failed
C6_Witness ==
    /\ policy = "timeout"
    /\ mainPc = "returned"
    /\ ret = TimeoutError
    /\ \E i \in slow, j \in DOMAIN st : i < j /\ st[j] = "done" /\ TaskFails(j)

OrderedPolicies == {"all", "timeout", "shared", "cancel"}

OwnResults == [i \in 1..N |-> ExecWasmSync(tasks[i]).val]

\* C7 as stated: a success of concurrent_wasm, concurrent_wasm_timeout,
\* concurrent_wasm_shared or concurrent_wasm_cancel_on_error returns one
\* element per task, the i-th being the result of the i-th task.
C7_ResultsInOrder ==
    (policy \in OrderedPolicies /\ mainPc = "returned" /\ ret.kind = "ok") =>
        /\ FailingTasks = {}
        /\ ret.vals = OwnResults

\* C7 amended: the same, for concurrent_wasm_shared when every task carries
\* the module bytes of the first task.
C7_ResultsInOrderSameModule ==
    (/\ policy \in OrderedPolicies
     /\ mainPc = "returned"
     /\ ret.kind = "ok"
     /\ policy = "shared" => \A i \in 1..N : tasks[i].wasm = tasks[1].wasm)
    => /\ FailingTasks = {}
       /\ ret.vals = OwnResults

\* concurrent_wasm_shared returned the results of more tasks than it aims at
\* chunks, and they are not all the same
C7_Witness ==
    /\ policy = "shared"
    /\ mainPc = "returned"
    /\ ret.kind = "ok"
    /\ N > ChunkCount
    /\ \A i \in 1..N : tasks[i].wasm = tasks[1].wasm
    /\ ret.vals[1] # ret.vals[2]

\* C8: in concurrent_wasm_cancel_on_error a failed task lets the call return
\* at once, whatever tasks in front of it are still queued or running; the
\* error returned is the error of a task that has failed.
C8_CancelWaitsForNoTask ==
    policy = "cancel" =>
        /\ (mainPc = "await" /\ FailedJobs # {}) => ENABLED Cancel_Poll
        /\ (mainPc = "returned" /\ ret.kind = "err") =>
              \E j \in FailedJobs : ret.err = ExecWasmSync(tasks[j]).err

\* the call returned the error of a task while a task in front of it has
\* not completed
C8_Witness ==
    /\ policy = "cancel"
    /\ mainPc = "returned"
    /\ ret.kind = "err"
    /\ \E j \in FailedJobs :
          /\ ret.err = ExecWasmSync(tasks[j]).err
          /\ \E i \in 1..(j - 1) : st[i] \in {"queued", "running"}

\* C9: concurrent_wasm returns an error exactly when a task fails, and the
\* error is that of the first failing task of the list.
C9_AllErrorIsFirstFailing ==
    (policy = "all" /\ mainPc = "returned") =>
        /\ ret.kind = "err" <=> FailingTasks # {}
        /\ FailingTasks # {} =>
              ret = RetErr(ExecWasmSync(tasks[Min(FailingTasks)]).err)

\* two tasks fail with different errors, the later one is done, and the call
\* returned the error of the earlier one
C9_Witness ==
    /\ policy = "all"
    /\ mainPc = "returned"
    /\ \E i, j \in FailingTasks :
          /\ i < j
          /\ st[j] = "done"
          /\ ExecWasmSync(tasks[i]).err # ExecWasmSync(tasks[j]).err
          /\ ret.err = ExecWasmSync(tasks[i]).err

\* C10: once concurrent_wasm_cancel_on_error has returned an error, no task
\* of the group that was still queued starts executing.
C10_NoStartAfterCancel ==
    [][(policy = "cancel" /\ mainPc = "returned" /\ ret.kind = "err") =>
          \A j \in DOMAIN st : st[j] = "queued" => st'[j] # "running"]_vars

SameModule == \A i \in 1..N : tasks[i].wasm = tasks[1].wasm

\* C11: for a task list whose tasks all carry the same module bytes,
\* concurrent_wasm and concurrent_wasm_shared decide success the same way
\* (success exactly when no task of the list fails) and on success both
\* return the tasks' results in the order of the list.
C11_SharedAgreesWithAll ==
    (policy \in {"all", "shared"} /\ SameModule /\ mainPc = "returned") =>
        /\ ret.kind = "ok" <=> FailingTasks = {}
        /\ ret.kind = "ok" => ret.vals = OwnResults

\* concurrent_wasm_shared failed on more tasks than it aims at chunks, of
\* one module, the first of which succeeds
C11_Witness ==
    /\ policy = "shared"
    /\ SameModule
    /\ N > ChunkCount
    /\ mainPc = "returned"
    /\ ret.kind = "err"
    /\ ~TaskFails(1)

(***************************************************************************)
(* Claims about the module cache.                                          *)
(***************************************************************************)
\* C12: a get_or_compile_module call for bytes B that starts after a call
\* for B has returned Ok never reaches the compiler; the cache holds its
\* entries under the key of the bytes they were compiled from, so at most
\* one entry made from B, and an entry under B's key once a call for B has
\* returned Ok.
C12_CompiledOnceThenCached ==
    /\ \A e \in ExecThreads : ex[e].pc \in {"compile", "insert"} => ~ex[e].late
    /\ \A h \in Keys : cache[h].ok => hash_wasm_bytes(cache[h].val) = h
    /\ \A b \in doneOk : cache[hash_wasm_bytes(b)].ok

\* two workers missed on the same bytes and both compiled them: one has
\* inserted, run and started a later call, which hit the cache; the other is
\* about to insert
C12_Witness ==
    \E e, f \in ExecThreads :
        /\ ex[e].late
        /\ ex[e].pc = "run"
        /\ ex[e].module = ex[e].wasm
        /\ ex[f].wasm = ex[e].wasm
        /\ ex[f].pc = "insert"

CHAN_CLOSED_SENTINEL == I64Min

\* channels::send returns a bool
BoolValue(b) == [tag |-> "bool", v |-> b]

\* match channels::send(..) { Ok(true) => 0, Ok(false) => -1, Err(_) => -1 }:
\* the arm that fits x and its value; no arm fits a bool
ChanSendMatch(x) ==
    CASE x.tag = "Ok" /\ x.v -> [arm |-> "Ok(true)", val |-> 0]
      [] x.tag = "Ok" /\ ~x.v -> [arm |-> "Ok(false)", val |-> 0 - 1]
      [] x.tag = "Err" -> [arm |-> "Err(_)", val |-> 0 - 1]
      [] OTHER -> [arm |-> "none", val |-> 0]

\* chan_send, for a registry send that returned r
chan_send(r) == ChanSendMatch(BoolValue(r.ok))

\* chan_receive, had the sentinel been -1
chan_receive_minus_one(r) == IF r.ok THEN r.val ELSE 0 - 1

\* chan_receive, for a receive_blocking that returned r:
\* receive_blocking(..).unwrap_or(CHAN_CLOSED_SENTINEL)
chan_receive(r) == IF r.ok THEN r.val ELSE CHAN_CLOSED_SENTINEL

(***************************************************************************)
(* Claims about the registry lock, close and the receives.                 *)
(***************************************************************************)
AtEndpoint(t) == th[t].pc \in {"send_ep", "try_recv", "recv"}

\* C14: a thread that is at its endpoint send or receive does not hold the
\* registry mutex; while a thread is blocked there, any caller that is free
\* to make a call can make any of them.
C14_LockFreeWhileBlocked ==
    /\ \A t \in Threads : AtEndpoint(t) => lockHolder # t
    /\ \A t, u \in Threads :
          (AtEndpoint(t) /\ ~ENABLED Step(t) /\ th[u].pc = "idle" /\ callsLeft > 0)
          => ENABLED Call(u)

\* one thread is blocked in receive_blocking on an open, empty channel while
\* the other is free to make a call
C14_Witness ==
    \E t, u \in Threads :
        /\ th[t].pc = "recv" /\ ~ENABLED Step(t)
        /\ registry[th[t].id] = "open"
        /\ th[u].pc = "idle" /\ callsLeft > 0

\* C15 as stated: the receive call that returns the last value that was
\* queued when close found the channel removes the entry: the id is absent
\* when that call returns.
C15_RemovedWithLastValue ==
    [][\A id \in Ids :
          (owed[id] = 1 /\ owed'[id] = 0 /\ registry[id] = "closed")
          => registry'[id] = "absent"]_vars

\* C15 amended: while values that were queued when close found the channel
\* remain, the entry is present (closed) and its buffer holds them, unless
\* destroy is called; the receive call that returns the last of them leaves
\* the entry in place; within a call, only a receive that found the closed
\* entry, failed at its endpoint and returns None removes it.
C15_RemovedAfterLastValue ==
    [][\A id \in Ids :
          /\ owed'[id] > 0 =>
                registry'[id] = "closed" /\ Len(buf'[id]) >= owed'[id]
          /\ (owed[id] = 1 /\ owed'[id] = 0 /\ callsLeft' = callsLeft)
                => registry'[id] = "closed"
          /\ (registry[id] = "closed" /\ registry'[id] = "absent"
                /\ callsLeft' = callsLeft)
                => \E t \in Threads :
                      /\ th[t].pc = "cleanup" /\ th[t].id = id /\ th[t].closed
                      /\ th'[t].pc = "idle" /\ th'[t].res = None]_vars

\* a receive has returned a value, and a closed entry with a drained buffer
\* is still in the registry
C15_Witness ==
    \E id \in Ids, t \in Threads :
        /\ registry[id] = "closed"
        /\ buf[id] = <<>>
        /\ owed[id] = 0
        /\ th[t].pc = "idle" /\ th[t].op = "receive" /\ th[t].res.ok

\* C16: when a receive or receive_blocking call returns None after its
\* endpoint receive failed on a channel that is closed and drained, the id
\* is absent from the registry once the call has returned.
C16_DrainedClosedRemoved ==
    [][\A t \in Threads :
          (/\ th[t].pc \in {"try_recv", "recv", "cleanup"}
           /\ th'[t].pc = "idle"
           /\ th'[t].res = None
           /\ registry[th[t].id] = "closed")
          => registry'[th[t].id] = "absent"]_vars

Returned(t, op) == th[t].pc = "idle" /\ th[t].op = op

\* C17: chan_send returns 0 when the registry send returned true and -1
\* when it returned false, and nothing else.
C17_ChanSendStatus ==
    \A t \in Threads : Returned(t, "send") =>
        /\ chan_send(th[t].res).arm # "none"
        /\ chan_send(th[t].res).val = IF th[t].res = RetTrue THEN 0 ELSE 0 - 1

\* C18 as stated: chan_receive returns v when receive_blocking yields
\* Some(v), and returns the sentinel exactly when receive_blocking yields
\* None.
C18_SentinelOnlyForNone ==
    \A t \in Threads : Returned(t, "receive_blocking") =>
        /\ th[t].res.ok => chan_receive(th[t].res) = th[t].res.val
        /\ chan_receive(th[t].res) = CHAN_CLOSED_SENTINEL <=> th[t].res = None

\* C18 amended: chan_receive returns v when receive_blocking yields Some(v)
\* and the sentinel when it yields None, so it returns the sentinel exactly
\* when receive_blocking yields None or Some(i64::MIN); a receive_blocking
\* on an id the registry does not hold never gets to the blocking receive.
C18_SentinelForNoneOrMin ==
    [][\A t \in Threads :
          /\ Returned(t, "receive_blocking")' =>
                /\ th'[t].res.ok => chan_receive(th'[t].res) = th'[t].res.val
                /\ th'[t].res = None =>
                      chan_receive(th'[t].res) = CHAN_CLOSED_SENTINEL
                /\ chan_receive(th'[t].res) = CHAN_CLOSED_SENTINEL <=>
                      (th'[t].res = None \/ th'[t].res = Some(I64Min))
          /\ (th[t].pc = "idle" /\ th'[t].pc = "recv") =>
                registry[th'[t].id] # "absent"]_vars

\* a receive_blocking has returned Some(i64::MIN)
C18_Witness ==
    \E t \in Threads : Returned(t, "receive_blocking") /\ th[t].res = Some(I64Min)

(***************************************************************************)
(* Claims about one invocation.                                            *)
(***************************************************************************)
FuelError == Err(<<"WASM execution error", "fuel">>)

\* C19: a guest starts with the whole fuel budget and every instruction it
\* executes takes one unit, so it executes at most FuelBudget instructions;
\* while it runs, the invocation can always take its next step (it returns
\* or traps when the fuel is gone), and a guest that loops without bound
\* ends with the execution error of a guest out of fuel.
C19_FuelBoundsExecution ==
    \A e \in ExecThreads :
        /\ ex[e].pc = "run" =>
              /\ ex[e].fuel >= 0
              /\ ex[e].fuel + ex[e].ticks = FuelBudget
              /\ ENABLED Exec_Run(e)
        /\ (ex[e].pc = "idle" /\ ex[e].module = 1 /\ ex[e].func = "spin") =>
              ex[e].res = FuelError /\ ex[e].ticks = FuelBudget

\* the loop has been called and the call has returned
C19_Witness ==
    \E e \in ExecThreads :
        /\ ex[e].pc = "idle"
        /\ ex[e].func = "spin"
        /\ ex[e].ticks = FuelBudget
        /\ ex[e].res = FuelError

\* the low I32Bits bits of v, read as a signed integer
Wrap32(v) ==
    ((v + Pow2(I32Bits - 1)) % Pow2(I32Bits)) - Pow2(I32Bits - 1)

\* the signed integer a passed value stands for
Passed(w) == IF w.ty = "i32" THEN I32AsI64(w.bits) ELSE w.bits

\* C20: an argument bound to an i32 parameter is passed as its low 32 bits
\* read as a signed integer, an argument bound to an i64 parameter is
\* passed unchanged; an i64 result is returned unchanged and an i32 result
\* sign-extended.
C20_Coercions ==
    \A e \in ExecThreads :
        /\ ex[e].pc = "run" =>
              \A i \in 1..Len(ex[e].wargs) :
                  /\ ex[e].wargs[i].ty = ExecFn(e).params[i]
                  /\ Passed(ex[e].wargs[i]) =
                        IF ExecFn(e).params[i] = "i32"
                        THEN Wrap32(ex[e].args[i]) ELSE ex[e].args[i]
        /\ (ex[e].pc = "idle" /\ ex[e].module = 1 /\ ex[e].res.ok) =>
              CASE ex[e].func = "id64" -> ex[e].res.val = ex[e].args[1]
                [] ex[e].func = "id32" -> ex[e].res.val = Wrap32(ex[e].args[1])
                [] ex[e].func = "add" ->
                      ex[e].res.val =
                          Wrap32(Wrap32(ex[e].args[1]) + Wrap32(ex[e].args[2]))
                [] ex[e].func = "k" -> ex[e].res.val = 7
                [] OTHER -> ex[e].res.val = 1

\* add(2, 3) has returned 5, and an argument with bit I32Bits - 1 set has
\* come back negative from an i32 parameter
C20_Witness ==
    /\ ex[1].pc = "idle"
    /\ ex[1].func = "id32"
    /\ ex[1].args = <<Pow2(I32Bits - 1)>>
    /\ ex[1].res = Ok(0 - Pow2(I32Bits - 1))

\* the first n elements of s, all of s if it has fewer
Prefix(s, n) == SubSeq(s, 1, IF Len(s) < n THEN Len(s) ELSE n)

\* the call of worker e has found its function and built the values for it
ArgsBuilt(e) ==
    /\ ex[e].pc \in {"run", "idle"}
    /\ ex[e].module = 1
    /\ ex[e].func \in DOMAIN Exports(1)

\* C21: the values built for the guest function are one per pair of host
\* argument and declared parameter, in order, so there are
\* min(#arguments, #parameters) of them; a call with at least as many
\* arguments as parameters returns what the call with the arguments cut to
\* the parameter count returns.
C21_ExtraArgumentsIgnored ==
    \A e \in ExecThreads :
        ArgsBuilt(e) =>
            LET ps == ExecFn(e).params
                kept == Prefix(ex[e].args, Len(ps))
            IN  /\ Len(ex[e].wargs) = Len(kept)
                /\ \A i \in 1..Len(kept) :
                      ex[e].wargs[i] = CoerceArg(ex[e].args[i], ps[i])
                /\ (ex[e].pc = "idle" /\ Len(ex[e].args) >= Len(ps)) =>
                      ex[e].res = ExecWasmSync([wasm |-> 1, func |-> ex[e].func,
                                                args |-> kept])

\* id32 has returned from a call with one argument more than it declares
C21_Witness ==
    /\ ex[1].pc = "idle"
    /\ ex[1].func = "id32"
    /\ Len(ex[1].args) = 2
    /\ ex[1].args[2] # ex[1].args[1]
    /\ Len(ex[1].wargs) = 1
    /\ ex[1].res = Ok(Wrap32(ex[1].args[1]))

(***************************************************************************)
(* Claims about close.                                                     *)
(***************************************************************************)
\* a close has found the entry of id, and the entry is gone
ClosedAndGone(id) == id \in closedRet /\ registry[id] = "absent"

\* C22: a close that finds the entry of a channel with an empty buffer
\* removes the entry; from then on the id stays absent, a send on it returns
\* false and a receive or receive_blocking on it returns None, each in the
\* step that looks the id up (so without waiting); a close on an absent id
\* changes nothing of the registry or the channels.
C22_CloseOnEmptyRemoves ==
    [][\A t \in Threads, id \in Ids :
          /\ (Close(t, id) /\ registry[id] # "absent" /\ buf[id] = <<>>)
                => ClosedAndGone(id)'
          /\ (Close(t, id) /\ registry[id] = "absent")
                => UNCHANGED <<registry, buf, cap, nextId, closedRet, owed>>
          /\ ClosedAndGone(id) =>
                /\ registry'[id] = "absent"
                /\ \A v \in Vals :
                      SendLookup(t, id, v) =>
                          th'[t].pc = "idle" /\ th'[t].res = RetFalse
                /\ \A op \in {"receive", "receive_blocking"} :
                      RecvLookup(t, id, op) =>
                          th'[t].pc = "idle" /\ th'[t].res = None]_vars

\* a channel was created, closed before any value was sent, and a
\* receive_blocking on it has then returned None
C22_Witness ==
    \E id \in Ids :
        /\ ClosedAndGone(id)
        /\ scen[id].phase = "closed"
        /\ scen[id].sent = <<>>
        /\ scen[id].got = <<None>>

\* thread t is inside receive_blocking at receiver.recv(), and a close has
\* found the entry of the channel
RecvAfterClose(t) == th[t].pc = "recv" /\ th[t].id \in closedRet

\* C23: a receive_blocking that is at its blocking receive when a close has
\* found the channel is not left blocked: unless a send that started before
\* the close is still on its way, its receive can complete at once, with the
\* value at the head of the buffer if there is one and with None otherwise;
\* in every case the call eventually returns.
C23_CloseWakesReceiver ==
    /\ [](\A t \in Threads :
            (RecvAfterClose(t) /\ SenderClones(th[t].id) = {}) => ENABLED Recv(t))
    /\ [][\A t \in Threads :
            (RecvAfterClose(t) /\ SenderClones(th[t].id) = {} /\ th'[t].pc = "idle")
            => th'[t].res = IF buf[th[t].id] # <<>>
                            THEN Some(Head(buf[th[t].id])) ELSE None]_vars
    /\ \A t \in Threads :
          RecvAfterClose(t) ~> (th[t].pc = "idle" /\ th[t].op = "receive_blocking")

\* a receive_blocking that found the channel open is at its receive, the
\* buffer is empty, and a close has removed the entry meanwhile
C23_Witness ==
    \E t \in Threads :
        /\ RecvAfterClose(t)
        /\ ~th[t].closed
        /\ buf[th[t].id] = <<>>
        /\ registry[th[t].id] = "absent"

(***************************************************************************)
(* Claims about the chunks of concurrent_wasm_shared.                      *)
(***************************************************************************)
\* the least q with q * d >= n
CeilDiv(n, d) == CHOOSE q \in 0..n : q * d >= n /\ (q = 0 \/ (q - 1) * d < n)

RECURSIVE ChunksUpTo(_)
\* the first j chunks, one after the other
ChunksUpTo(j) == IF j = 0 THEN <<>> ELSE ChunksUpTo(j - 1) \o Chunk(j)

\* C24: concurrent_wasm_shared cuts N >= 1 tasks into consecutive chunks of
\* ceil(N/8) tasks, the last one holding what is left (at least one task):
\* at most 8 chunks, none empty, one blocking job per chunk, and the chunks
\* put end to end are the submitted list, so every task is in exactly one
\* chunk; for N = 0 the call returns the empty list and starts no job.
C24_ChunksPartitionTasks ==
    policy = "shared" =>
        IF N = 0
        THEN /\ st = <<>>
             /\ mainPc = "returned" => ret = RetOk(<<>>)
        ELSE /\ NJobs >= 1
             /\ NJobs <= ChunkCount
             /\ \A j \in 1..(NJobs - 1) : Len(Chunk(j)) = CeilDiv(N, ChunkCount)
             /\ Len(Chunk(NJobs)) \in 1..CeilDiv(N, ChunkCount)
             /\ ChunksUpTo(NJobs) = tasks
             /\ mainPc # "start" => DOMAIN st = 1..NJobs

\* a list of more than 8 tasks has been run in chunks of more than one task,
\* the last chunk shorter than the others
C24_Witness ==
    /\ policy = "shared"
    /\ N > ChunkCount
    /\ ChunkSize > 1
    /\ Len(Chunk(NJobs)) < ChunkSize
    /\ mainPc = "returned"
    /\ ret.kind = "ok"

(***************************************************************************)
(* Claims about the values sent.                                           *)
(***************************************************************************)
\* C25: when destroy is never called, a value whose send returned true is
\* never discarded: a value that is queued and has not been received is
\* queued for an entry of the registry, or for a receive call that is still
\* in progress on the channel.
C25_NoValueDiscarded ==
    \A id \in Ids :
        (registry[id] = "absent" /\ ReceiverClones(id) = {}) => buf[id] = <<>>

(***************************************************************************)
(* Claims about exec_many_shared_reuse.                                    *)
(***************************************************************************)
\* the last component of an error: what went wrong, without the text the
\* caller put in front of it
ErrCause(r) == r.err[Len(r.err)]

\* the same value, or an error for the same cause
SameOutcome(r, s) ==
    /\ r.ok = s.ok
    /\ r.val = s.val
    /\ ~r.ok => ErrCause(r) = ErrCause(s)

\* what exec_wasm_sync returns for task i of the chunk, run alone
Alone(i) ==
    ExecWasmSync([wasm |-> ru.wasm, func |-> ru.tasks[i].func,
                  args |-> ru.tasks[i].args])

SameFunction == \A i \in 1..Len(ru.tasks) : ru.tasks[i].func = ru.tasks[1].func

\* C26: when exec_many_shared_reuse has returned for a chunk whose tasks all
\* name the same function, every task has the outcome exec_wasm_sync gives
\* it when it is run alone; in particular no task that runs within the fuel
\* budget alone has failed for lack of fuel.
C26_ReuseAgreesWithAlone ==
    (ru.pc = "done" /\ SameFunction) =>
        /\ Len(ru.results) = Len(ru.tasks)
        /\ \A i \in 1..Len(ru.tasks) : SameOutcome(ru.results[i], Alone(i))

\* C27: exec_many_shared_reuse never gives up on the whole chunk: it does
\* not panic, whatever the argument counts and function names of the tasks,
\* and when it has returned there is one result per task.
C27_OneResultPerTask ==
    /\ ru.pc # "panicked"
    /\ ru.pc = "done" => Len(ru.results) = Len(ru.tasks)

(***************************************************************************)
(* Claims about the module cache and its keys.                             *)
(***************************************************************************)
\* C28: a worker that has got its module from get_or_compile_module for
\* bytes that compile holds the module compiled from these bytes.
C28_ModuleOfOwnBytes ==
    \A e \in ExecThreads :
        (ex[e].pc \in {"instantiate", "run"} /\ Compiles(ex[e].wasm))
        => ex[e].module = ex[e].wasm

=============================================================================
